---- MODULE Spec2Model ----
(***************************************************************************)
(* A Place is a union of City | Country, stored as two nullable foreign    *)
(* keys (prisma/schema.prisma + its migration) and rebuilt as a tagged     *)
(* union on the read path (usage.ts: find, transformPlaceUnion).           *)
(*                                                                         *)
(* Storage is modelled from the migration DDL, which is what the database  *)
(* executes: three tables with SERIAL keys and three foreign keys, all     *)
(* ON DELETE SET NULL.  Where the Prisma model block declares more than    *)
(* the DDL creates (City.countryId required, name @unique), the DDL is     *)
(* followed and the difference is stated next to the claim it decides.     *)
(***************************************************************************)
EXTENDS Integers, FiniteSets, TLC

VARIABLES
    Country,     \* table "Country": set of rows [id, name]
    City,        \* table "City": set of rows [id, name, countryId]
    Place,       \* table "Place": set of rows [id, cityId, countryId]
    countrySeq,  \* last value handed out by "Country".id SERIAL
    citySeq,     \* last value handed out by "City".id SERIAL
    placeSeq,    \* last value handed out by "Place".id SERIAL
    id,          \* find: the identifier looked up
    result,      \* find: the raw record findFirst returned
    place,       \* find: the value transformPlaceUnion returned
    pc           \* "start" | "called" | "returned"

storage == <<Country, City, Place, countrySeq, citySeq, placeSeq>>
vars == <<Country, City, Place, countrySeq, citySeq, placeSeq, id, result, place, pc>>

\* ---- bounds ----
MaxPlaces == 3   \* creation operations performed at most
MaxRawId == 2    \* identifiers used in the raw records fed to transformPlaceUnion

\* ---- values ----
\* JavaScript null (an absent object).
null == [null |-> TRUE]
\* SQL NULL in an INTEGER foreign-key column; SERIAL identifiers start at 1.
NullId == 0
\* The error a member access on null throws (used by a mutant only).
TypeError == [error |-> "TypeError"]

CityNames == {"New York", "Berlin"}
CountryNames == {"United States", "France"}

\* ---- the read path ----

\* prisma include of an optional relation: the row the foreign key points at.
Lookup(table, key) ==
    IF \E r \in table : r.id = key
    THEN CHOOSE r \in table : r.id = key
    ELSE null

\* Mutant of findFirst: the where clause is dropped, so the first Place row
\* is returned whatever the identifier.
findFirst_ignoresWhere(i) ==
    IF Place = {} THEN null
    ELSE LET p == CHOOSE q \in Place : \A o \in Place : q.id <= o.id
             c == Lookup(City, p.cityId)
         IN  [id |-> p.id, cityId |-> p.cityId, countryId |-> p.countryId,
              city |-> IF c = null THEN null
                       ELSE [country |-> Lookup(Country, c.countryId)] @@ c,
              country |-> Lookup(Country, p.countryId)]

\* prisma.place.findFirst({ where: { id }, include: { city: { include:
\* { country: true } }, country: true } })
findFirst(i) ==
    IF \E p \in Place : p.id = i
    THEN LET p == CHOOSE q \in Place : q.id = i
             c == Lookup(City, p.cityId)
         IN  [id |-> p.id, cityId |-> p.cityId, countryId |-> p.countryId,
              city |-> IF c = null THEN null
                       ELSE [country |-> Lookup(Country, c.countryId)] @@ c,
              country |-> Lookup(Country, p.countryId)]
    ELSE null

\* { ...o }: the own fields of o; spreading null contributes nothing.
\* An object literal is built left to right, later keys overriding earlier
\* ones, so { ...a, k: v } is [k |-> v] @@ a and { k: v, ...a } is
\* a @@ [k |-> v].
SpreadOver(o, earlier) == IF o = null THEN earlier ELSE o @@ earlier

\* result?.city
OptCity(r) == IF r = null THEN null ELSE r.city
\* result?.country
OptCountry(r) == IF r = null THEN null ELSE r.country

\* Mutants of transformPlaceUnion: the country branch tested first;
\* the nested country taken from the Place's direct relation; the whole raw
\* record spread into the country value; plain member access on result;
\* the Place row's own columns spread into the value.
transformPlaceUnion_countryFirst(r) ==
    IF OptCountry(r) # null
    THEN [type |-> "country"] @@ r.country
    ELSE IF OptCity(r) # null
    THEN [type |-> "city",
          country |-> SpreadOver(r.city.country, [type |-> "country"])] @@ r.city
    ELSE null

transformPlaceUnion_directCountry(r) ==
    IF OptCity(r) # null
    THEN [type |-> "city",
          country |-> SpreadOver(r.country, [type |-> "country"])] @@ r.city
    ELSE IF OptCountry(r) # null
    THEN [type |-> "country"] @@ r.country
    ELSE null

transformPlaceUnion_spreadsResult(r) ==
    IF OptCity(r) # null
    THEN [type |-> "city",
          country |-> SpreadOver(r.city.country, [type |-> "country"])] @@ r.city
    ELSE IF OptCountry(r) # null
    THEN [type |-> "country"] @@ r.country @@ r
    ELSE null

transformPlaceUnion_noOptionalChain(r) ==
    IF r = null THEN TypeError
    ELSE IF r.city # null
    THEN [type |-> "city",
          country |-> SpreadOver(r.city.country, [type |-> "country"])] @@ r.city
    ELSE IF r.country # null
    THEN [type |-> "country"] @@ r.country
    ELSE null

transformPlaceUnion_keepsPlaceRow(r) ==
    IF OptCity(r) # null
    THEN [type |-> "city",
          country |-> SpreadOver(r.city.country, [type |-> "country"])] @@ r @@ r.city
    ELSE IF OptCountry(r) # null
    THEN [type |-> "country"] @@ r @@ r.country
    ELSE null

\* function transformPlaceUnion (result: PlaceResult): Place | null
transformPlaceUnion(r) ==
    IF OptCity(r) # null
    THEN [type |-> "city",
          country |-> SpreadOver(r.city.country, [type |-> "country"])] @@ r.city
    ELSE IF OptCountry(r) # null
    THEN [type |-> "country"] @@ r.country
    ELSE null

\* ---- storage operations ----

\* Mutant of CreatePlaceCity: the new Place is linked to the new Country
\* instead of the new City.
CreatePlaceCity_linksCountry(cityName, countryName) ==
    /\ placeSeq < MaxPlaces
    /\ countrySeq' = countrySeq + 1
    /\ citySeq' = citySeq + 1
    /\ placeSeq' = placeSeq + 1
    /\ Country' = Country \cup {[id |-> countrySeq', name |-> countryName]}
    /\ City' = City \cup {[id |-> citySeq', name |-> cityName, countryId |-> countrySeq']}
    /\ Place' = Place \cup {[id |-> placeSeq', cityId |-> NullId, countryId |-> countrySeq']}
    /\ UNCHANGED <<id, result, place, pc>>

\* prisma.place.create({ data: { city: { create: { name, country: { create:
\* { name } } } } } }): Country, then City, then Place, in one transaction.
CreatePlaceCity(cityName, countryName) ==
    /\ placeSeq < MaxPlaces
    /\ countrySeq' = countrySeq + 1
    /\ citySeq' = citySeq + 1
    /\ placeSeq' = placeSeq + 1
    /\ Country' = Country \cup {[id |-> countrySeq', name |-> countryName]}
    /\ City' = City \cup {[id |-> citySeq', name |-> cityName, countryId |-> countrySeq']}
    /\ Place' = Place \cup {[id |-> placeSeq', cityId |-> citySeq', countryId |-> NullId]}
    /\ UNCHANGED <<id, result, place, pc>>

\* prisma.place.create({ data: { country: { create: { name } } } })
CreatePlaceCountry(countryName) ==
    /\ placeSeq < MaxPlaces
    /\ countrySeq' = countrySeq + 1
    /\ placeSeq' = placeSeq + 1
    /\ Country' = Country \cup {[id |-> countrySeq', name |-> countryName]}
    /\ Place' = Place \cup {[id |-> placeSeq', cityId |-> NullId, countryId |-> countrySeq']}
    /\ UNCHANGED <<City, citySeq, id, result, place, pc>>

\* Mutant of DeleteCity: Place_cityId_fkey ON DELETE CASCADE.
DeleteCity_cascade(c) ==
    /\ \E r \in City : r.id = c
    /\ City' = {r \in City : r.id # c}
    /\ Place' = {p \in Place : p.cityId # c}
    /\ UNCHANGED <<Country, countrySeq, citySeq, placeSeq, id, result, place, pc>>

\* DELETE FROM "City" WHERE id = c, with Place_cityId_fkey ON DELETE SET NULL.
DeleteCity(c) ==
    /\ \E r \in City : r.id = c
    /\ City' = {r \in City : r.id # c}
    /\ Place' = {IF p.cityId = c THEN [p EXCEPT !.cityId = NullId] ELSE p : p \in Place}
    /\ UNCHANGED <<Country, countrySeq, citySeq, placeSeq, id, result, place, pc>>

\* DELETE FROM "Country" WHERE id = k, with City_countryId_fkey and
\* Place_countryId_fkey ON DELETE SET NULL ("City"."countryId" is a nullable
\* INTEGER in the DDL, so the update is accepted).
DeleteCountry(k) ==
    /\ \E r \in Country : r.id = k
    /\ Country' = {r \in Country : r.id # k}
    /\ City' = {IF c.countryId = k THEN [c EXCEPT !.countryId = NullId] ELSE c : c \in City}
    /\ Place' = {IF p.countryId = k THEN [p EXCEPT !.countryId = NullId] ELSE p : p \in Place}
    /\ UNCHANGED <<countrySeq, citySeq, placeSeq, id, result, place, pc>>

\* find(id): the value the lookup returns in the current storage state.
find(i) == transformPlaceUnion(findFirst(i))

\* const place = await find(id)
CallFind(i) ==
    /\ id' = i
    /\ result' = findFirst(i)
    /\ place' = transformPlaceUnion(result')
    /\ pc' = "returned"
    /\ UNCHANGED storage

Init ==
    /\ Country = {} /\ City = {} /\ Place = {}
    /\ countrySeq = 0 /\ citySeq = 0 /\ placeSeq = 0
    /\ id = NullId /\ result = null /\ place = null
    /\ pc = "start"

Create ==
    \/ \E cn \in CityNames, kn \in CountryNames : CreatePlaceCity(cn, kn)
    \/ \E kn \in CountryNames : CreatePlaceCountry(kn)

Lookups == \E i \in 1..(MaxPlaces + 1) : CallFind(i)

Delete ==
    \/ \E c \in City : DeleteCity(c.id)
    \/ \E k \in Country : DeleteCountry(k.id)

Next == Create \/ Lookups \/ Delete

\* Storage under creation, lookup and deletion.
Spec == Init /\ [][Next]_vars

NextCreate == Create \/ Lookups

\* Storage under the two creation operations and lookup only.
SpecCreate == Init /\ [][NextCreate]_vars

\* ---- transformPlaceUnion on every raw record of its parameter type ----

RawCountry == [id : 1..MaxRawId, name : CountryNames]

RawCity ==
    {[id |-> i, name |-> n, countryId |-> k.id, country |-> k] :
        i \in 1..MaxRawId, n \in CityNames, k \in RawCountry}

PlaceResult ==
    {null} \cup
    {[id |-> i,
      cityId |-> IF c = null THEN NullId ELSE c.id,
      countryId |-> IF k = null THEN NullId ELSE k.id,
      city |-> c, country |-> k] :
        i \in 1..MaxRawId, c \in RawCity \cup {null}, k \in RawCountry \cup {null}}

InitTransform ==
    /\ Country = {} /\ City = {} /\ Place = {}
    /\ countrySeq = 0 /\ citySeq = 0 /\ placeSeq = 0
    /\ id = NullId
    /\ result \in PlaceResult
    /\ place = null
    /\ pc = "called"

Transform ==
    /\ pc = "called"
    /\ place' = transformPlaceUnion(result)
    /\ pc' = "returned"
    /\ UNCHANGED <<storage, id, result>>

SpecTransform == InitTransform /\ [][Transform]_vars

\* ---- claims ----

PlaceIds == {p.id : p \in Place}

\* The tagged city value the source builds from a fetched city relation c.
CityValue(c) ==
    [type |-> "city", id |-> c.id, name |-> c.name, countryId |-> c.countryId,
     country |-> [type |-> "country", id |-> c.country.id, name |-> c.country.name]]

\* C1: when both the city and the country relation are present, the value
\* returned is the "city"-tagged one built from the city relation; its only
\* country field is the city's own owning country.
C1_CityTakesPrecedence ==
    (pc = "returned" /\ result # null /\ result.city # null /\ result.country # null)
        => place = CityValue(result.city)

C1_Witness ==
    /\ pc = "returned" /\ result # null
    /\ result.city # null /\ result.country # null
    /\ result.country # result.city.country
    /\ place # null

\* C2: with only the city relation set, the value is tagged "city", carries
\* the city's attributes, and nests a "country"-tagged value with the id and
\* name of the city's owning country.
C2_CityOnly ==
    (pc = "returned" /\ result # null /\ result.city # null /\ result.country = null)
        => /\ place # null
           /\ DOMAIN place = {"type", "id", "name", "countryId", "country"}
           /\ place.type = "city"
           /\ place.id = result.city.id
           /\ place.name = result.city.name
           /\ place.country =
                [type |-> "country", id |-> result.city.country.id,
                 name |-> result.city.country.name]

C2_Witness ==
    /\ pc = "returned" /\ result # null
    /\ result.city # null /\ result.country = null
    /\ place # null

\* C3: with only the country relation set, the value is tagged "country",
\* carries the country's attributes, and has no country field.
C3_CountryOnly ==
    (pc = "returned" /\ result # null /\ result.city = null /\ result.country # null)
        => /\ place = [type |-> "country", id |-> result.country.id,
                       name |-> result.country.name]
           /\ "country" \notin DOMAIN place

C3_Witness ==
    /\ pc = "returned" /\ result # null
    /\ result.city = null /\ result.country # null
    /\ place # null

\* C4: an absent input, and a record with neither relation present, both
\* give absent, and nothing is thrown.
C4_AbsentOrNeither ==
    (pc = "returned" /\ (result = null \/ (result.city = null /\ result.country = null)))
        => place = null

C4_WitnessAbsent == pc = "returned" /\ result = null /\ place = null

C4_WitnessNeither ==
    /\ pc = "returned" /\ result # null
    /\ result.city = null /\ result.country = null
    /\ place = null

C4_Witness == C4_WitnessAbsent \/ C4_WitnessNeither

\* C5: a lookup of an identifier that matches no Place row returns absent,
\* throws nothing and leaves storage unchanged.
C5_FindMissingIsAbsent ==
    [][\A i \in 1..(MaxPlaces + 1) :
          (CallFind(i) /\ i \notin PlaceIds)
              => (result' = null /\ place' = null /\ storage' = storage)]_vars

C5_Witness ==
    /\ pc = "returned" /\ Place # {} /\ id \notin PlaceIds
    /\ result = null /\ place = null

\* C6: under the two creation operations, the Place just created looks up as
\* a value of the variant it was created with (for a city, nesting the
\* Country created with it), and what every earlier Place looks up as does
\* not change.
C6_RoundTrip ==
    [][\A n \in 1..MaxPlaces, c \in 1..MaxPlaces, k \in 1..MaxPlaces :
          (n = placeSeq + 1 /\ c = citySeq + 1 /\ k = countrySeq + 1) =>
            /\ \A cn \in CityNames, kn \in CountryNames :
                 CreatePlaceCity(cn, kn) =>
                   find(n)' = [type |-> "city", id |-> c, name |-> cn, countryId |-> k,
                               country |-> [type |-> "country", id |-> k, name |-> kn]]
            /\ \A kn \in CountryNames :
                 CreatePlaceCountry(kn) =>
                   find(n)' = [type |-> "country", id |-> k, name |-> kn]
            /\ \A m \in PlaceIds : find(m) # null /\ find(m)' = find(m)]_vars

C6_Witness ==
    /\ placeSeq >= 2
    /\ \E m, n \in PlaceIds :
         /\ find(m) # null /\ find(m).type = "city"
         /\ find(n) # null /\ find(n).type = "country"
    /\ pc = "returned" /\ id \in PlaceIds /\ place = find(id)

\* C7: a step that removes City or Country rows removes no Place row; each
\* Place keeps its fields except that a reference to a removed row is absent.
C7_DeleteSetsNull ==
    [][LET goneCities == {c.id : c \in City} \ {c.id : c \in City'}
           goneCountries == {k.id : k \in Country} \ {k.id : k \in Country'}
       IN  (goneCities # {} \/ goneCountries # {}) =>
             Place' = {[id |-> p.id,
                        cityId |-> IF p.cityId \in goneCities THEN NullId ELSE p.cityId,
                        countryId |-> IF p.countryId \in goneCountries THEN NullId
                                      ELSE p.countryId] : p \in Place}]_vars

C7_Witness ==
    /\ Cardinality(Place) = placeSeq
    /\ \E p \in Place : p.cityId = NullId /\ p.countryId = NullId
    /\ \E p \in Place : p.cityId # NullId \/ p.countryId # NullId

\* C8: every City row has a countryId that is set and names an existing
\* Country row, and a fetched city relation carries a present nested country.
C8_CityHasCountry ==
    /\ \A c \in City : c.countryId # NullId /\ \E k \in Country : k.id = c.countryId
    /\ (pc = "returned" /\ result # null /\ result.city # null)
          => result.city.country # null

\* C9: Country names and City names are unique in every reachable state.
C9_UniqueNames ==
    /\ \A a, b \in Country : a.name = b.name => a = b
    /\ \A a, b \in City : a.name = b.name => a = b

\* C10: a non-absent lookup result carries the identifier of the referenced
\* City or Country row, not the Place row's own id, cityId or countryId.
C10_ResultIdIsReferencedRow ==
    (pc = "returned" /\ place # null) =>
        /\ result # null
        /\ "cityId" \notin DOMAIN place
        /\ "type" \in DOMAIN place
        /\ place.type = "city" =>
             /\ result.city # null
             /\ place.id = result.cityId /\ place.id = result.city.id
             /\ place.countryId = result.city.countryId
        /\ place.type = "country" =>
             /\ result.country # null
             /\ place.id = result.countryId /\ place.id = result.country.id
             /\ "countryId" \notin DOMAIN place

C10_Witness ==
    /\ pc = "returned" /\ place # null
    /\ place.id # id
====
